---- MODULE Spec2Model ----
(***************************************************************************)
(* FraudShieldAI: the verification orchestrator of src/src/App.tsx (the    *)
(* App component's state, handleVerify, handleReport), the verify button   *)
(* of VerificationCard and the result panel.                               *)
(*                                                                         *)
(* Strings are sequences of tokens: a token is one character of the user's *)
(* text or one literal fragment of a template string.                      *)
(*                                                                         *)
(* One step of the model is one run of JavaScript to completion followed   *)
(* by the render that commits the state updates it issued: the part of     *)
(* handleVerify before its await, the part after it, or one event handler. *)
(***************************************************************************)
EXTENDS Integers, Sequences, FiniteSets, TLC

\* ---------------------------------------------------------------- bounds
\* longest text the user types
MaxLen == 2
\* Math.random() returns one of k/RandSteps, k in 0..RandSteps-1
RandSteps == 3

\* ------------------------------------------------------------- constants
\* Math.random() * 100
ScoreScale == 100

Tabs == {"advisor", "announcement", "social", "anomaly"}

\* characters the user can type
Chars == {" ", "a"}

Texts == UNION {[1..n -> Chars] : n \in 0..MaxLen}

Rand == 0..(RandSteps - 1)

\* results === null, and the absent value of the ghosts
Null == [absent |-> TRUE]

\* ---------------------------------------------------------------- strings
IsSpace(c) == c = " "

RECURSIVE TrimStart(_)
TrimStart(s) ==
  IF s # <<>> /\ IsSpace(Head(s)) THEN TrimStart(Tail(s)) ELSE s

RECURSIVE TrimEnd(_)
TrimEnd(s) ==
  IF s # <<>> /\ IsSpace(s[Len(s)]) THEN TrimEnd(SubSeq(s, 1, Len(s) - 1)) ELSE s

\* a mutant of trim: the text is tested untrimmed
TrimNone(s) == s

\* String.prototype.trim
Trim(s) == TrimEnd(TrimStart(s))

\* Array.prototype.join
RECURSIVE Join(_, _)
Join(parts, sep) ==
  IF parts = <<>> THEN <<>>
  ELSE IF Len(parts) = 1 THEN <<Head(parts)>>
  ELSE <<Head(parts), sep>> \o Join(Tail(parts), sep)

\* ------------------------------------------------------------ mock result
\* Math.random() > tenths/10, for the random number k/RandSteps
RandomAbove(k, tenths) == 10 * k > tenths * RandSteps

\* Math.floor(Math.random() * 100)
RandomScore(k) == (k * ScoreScale) \div RandSteps

FirstReason(tab) ==
  IF tab = "advisor" THEN "Advisor not found in SEBI registry"
  ELSE IF tab = "announcement" THEN "No matching official filing found"
  ELSE IF tab = "social" THEN "Contains suspicious keywords"
  ELSE "Unusual volume spike detected"

MockResult(tab, text, r1, r2, r3, r4) ==
  [risk_score |-> RandomScore(r1),
   risk_level |-> IF RandomAbove(r2, 6) THEN "High"
                  ELSE IF RandomAbove(r3, 3) THEN "Medium" ELSE "Low",
   reasons |-> <<FirstReason(tab), "AI analysis flagged potential fraud indicators">>,
   ai_explanation |->
     <<"Based on our analysis of \"">> \o text \o
     <<"\", this appears to be ",
       IF RandomAbove(r4, 5) THEN "suspicious" ELSE "potentially legitimate",
       " content. Our AI detected several red flags including unregistered entities and promises of guaranteed returns.">>]

\* every result a call made with (tab, text) can return
MockResults(tab, text) ==
  {MockResult(tab, text, r1, r2, r3, r4) : r1 \in Rand, r2 \in Rand, r3 \in Rand, r4 \in Rand}

\* ------------------------------------------------------------------ state
VARIABLES
  activeTab,   \* useState 'advisor'
  loading,     \* useState false
  results,     \* useState null
  inputValue,  \* useState ''
  inflight,    \* the handleVerify invocations suspended at their await, oldest first:
               \* [tab, text] is what the closure captured, superseded (ghost) is set
               \* when a later submission is accepted
  opened,      \* the draft this step handed to window.open, Null if it opened none
  lastEvent,   \* ghost: the event that made the last step
  fresh,       \* ghost: the stored result came from the latest accepted submission
  prev,        \* ghost: score and level of the last result that a submission discarded
  card         \* what ResultsCard rendered for results, Null while it has rendered nothing

vars == <<activeTab, loading, results, inputValue, inflight, opened, lastEvent, fresh, prev, card>>

Init ==
  /\ activeTab = "advisor"
  /\ loading = FALSE
  /\ results = Null
  /\ inputValue = <<>>
  /\ inflight = <<>>
  /\ opened = Null
  /\ lastEvent = "init"
  /\ fresh = TRUE
  /\ prev = Null
  /\ card = Null

\* ------------------------------------------------------------------- view
\* the result panel: spinner, ResultsCard or the 'Ready to Analyze' block
View ==
  IF loading THEN "spinner"
  ELSE IF results # Null THEN "results"
  ELSE "ready"

\* mutants of the verify button's disabled attribute
VerifyDisabledNoLoading == Trim(inputValue) = <<>>

VerifyDisabledAnd == Trim(inputValue) = <<>> /\ loading

\* the verify button's disabled attribute
VerifyDisabled == Trim(inputValue) = <<>> \/ loading

ScoreLevel(r) == [risk_score |-> r.risk_score, risk_level |-> r.risk_level]

Supersede(call) == [call EXCEPT !.superseded = TRUE]

\* mutants of handleVerify up to its await
handleVerifyNoSetLoading ==
  IF Trim(inputValue) = <<>>
  THEN UNCHANGED <<loading, results, inflight, fresh>>
  ELSE /\ UNCHANGED loading
       /\ results' = Null
       /\ fresh' = TRUE
       /\ inflight' = Append([i \in 1..Len(inflight) |-> Supersede(inflight[i])],
                             [tab |-> activeTab, text |-> inputValue, superseded |-> FALSE])

handleVerifyNoClear ==
  IF Trim(inputValue) = <<>>
  THEN UNCHANGED <<loading, results, inflight, fresh>>
  ELSE /\ loading' = TRUE
       /\ UNCHANGED <<results, fresh>>
       /\ inflight' = Append([i \in 1..Len(inflight) |-> Supersede(inflight[i])],
                             [tab |-> activeTab, text |-> inputValue, superseded |-> FALSE])

\* handleVerify up to its await: the guard, setLoading(true), setResults(null)
\* and the timer of the mocked call
handleVerify ==
  IF Trim(inputValue) = <<>>
  THEN UNCHANGED <<loading, results, inflight, fresh>>
  ELSE /\ loading' = TRUE
       /\ results' = Null
       /\ fresh' = TRUE
       /\ inflight' = Append([i \in 1..Len(inflight) |-> Supersede(inflight[i])],
                             [tab |-> activeTab, text |-> inputValue, superseded |-> FALSE])

\* ---------------------------------------------------------------- actions
\* Every action takes rec: whether the step records its event in the ghost
\* lastEvent. The program is the same for both values.
LogEvent(rec, e) == IF rec THEN lastEvent' = e ELSE UNCHANGED lastEvent

\* a click on the verify button: a disabled button dispatches no click
ClickVerifyButton(rec) ==
  /\ LogEvent(rec, "click")
  /\ opened' = Null
  /\ IF VerifyDisabled
     THEN UNCHANGED <<loading, results, inflight, fresh>>
     ELSE handleVerify
  /\ UNCHANGED <<activeTab, inputValue, card>>

ClickVerify(rec) == ClickVerifyButton(rec) /\ UNCHANGED prev

\* the same click, with the result it discards recorded in the ghost prev
ClickVerifyRecorded ==
  /\ ClickVerifyButton(TRUE)
  /\ prev' = IF results # Null /\ results' = Null THEN ScoreLevel(results) ELSE prev

\* a mutant of the tab buttons: a tab change also discards the result
SelectTabReset(rec) ==
  \E t \in Tabs :
    /\ activeTab' = t
    /\ results' = Null
    /\ LogEvent(rec, "tab")
    /\ opened' = Null
    /\ UNCHANGED <<loading, inputValue, inflight, fresh, prev, card>>

\* a click on one of the four tab buttons
SelectTab(rec) ==
  \E t \in Tabs :
    /\ activeTab' = t
    /\ LogEvent(rec, "tab")
    /\ opened' = Null
    /\ UNCHANGED <<loading, results, inputValue, inflight, fresh, prev, card>>

\* the texts one keystroke away from s: a character typed at the end, or the
\* last character deleted
Keystrokes(s) ==
  {Append(s, c) : c \in {c \in Chars : Len(s) < MaxLen}} \cup
  {SubSeq(s, 1, Len(s) - 1) : n \in {n \in {Len(s)} : n > 0}}

\* the textarea's onChange, once per keystroke
EditText(rec) ==
  \E s \in Keystrokes(inputValue) :
    /\ inputValue' = s
    /\ LogEvent(rec, "edit")
    /\ opened' = Null
    /\ UNCHANGED <<activeTab, loading, results, inflight, fresh, prev, card>>

\* mutants of the continuation of handleVerify
ResolveCallNoFinally(rec) ==
  /\ inflight # <<>>
  /\ \E r \in MockResults(Head(inflight).tab, Head(inflight).text) : results' = r
  /\ fresh' = ~Head(inflight).superseded
  /\ UNCHANGED loading
  /\ inflight' = Tail(inflight)
  /\ LogEvent(rec, "resolve")
  /\ opened' = Null
  /\ UNCHANGED <<activeTab, inputValue, prev, card>>

ResolveCallCurrent(rec) ==
  /\ inflight # <<>>
  /\ \E r \in MockResults(activeTab, inputValue) : results' = r
  /\ fresh' = ~Head(inflight).superseded
  /\ loading' = FALSE
  /\ inflight' = Tail(inflight)
  /\ LogEvent(rec, "resolve")
  /\ opened' = Null
  /\ UNCHANGED <<activeTab, inputValue, prev, card>>

\* the timer fires and handleVerify continues: mockResult from the captured
\* activeTab and inputValue, setResults(mockResult), finally setLoading(false)
ResolveCall(rec) ==
  /\ inflight # <<>>
  /\ \E r \in MockResults(Head(inflight).tab, Head(inflight).text) : results' = r
  /\ fresh' = ~Head(inflight).superseded
  /\ loading' = FALSE
  /\ inflight' = Tail(inflight)
  /\ LogEvent(rec, "resolve")
  /\ opened' = Null
  /\ UNCHANGED <<activeTab, inputValue, prev, card>>

\* a mutant of the failure path: setLoading(false) at the end of try
RejectCallNoFinally(rec) ==
  /\ inflight # <<>>
  /\ inflight' = Tail(inflight)
  /\ LogEvent(rec, "reject")
  /\ opened' = Null
  /\ UNCHANGED <<activeTab, inputValue, results, fresh, prev, loading, card>>

\* the awaited call rejects: catch logs the error, finally setLoading(false)
RejectCall(rec) ==
  /\ inflight # <<>>
  /\ loading' = FALSE
  /\ inflight' = Tail(inflight)
  /\ LogEvent(rec, "reject")
  /\ opened' = Null
  /\ UNCHANGED <<activeTab, inputValue, results, fresh, prev, card>>

\* subject and body of handleReport, before encoding
Subject == <<"Fraud Report - ", activeTab, " Verification">>

\* results?.field in a template literal: the text 'undefined' when results is null
Optional(str) == IF results = Null THEN <<"undefined">> ELSE str

\* a mutant of the body: only the first reason is reported
BodyFirstReason ==
  <<"Dear SEBI,\n\nI would like to report a potential fraud case:\n\nType: ", activeTab,
    "\nContent: ">> \o inputValue \o
  <<"\nRisk Score: ">> \o Optional(<<ToString(results.risk_score)>>) \o
  <<"\nReasons: ">> \o Optional(<<Head(results.reasons)>>) \o
  <<"\n\nAI Analysis: ">> \o Optional(results.ai_explanation) \o
  <<"\n\nPlease investigate this matter.\n\nThank you.">>

Body ==
  <<"Dear SEBI,\n\nI would like to report a potential fraud case:\n\nType: ", activeTab,
    "\nContent: ">> \o inputValue \o
  <<"\nRisk Score: ">> \o Optional(<<ToString(results.risk_score)>>) \o
  <<"\nReasons: ">> \o Optional(Join(results.reasons, ", ")) \o
  <<"\n\nAI Analysis: ">> \o Optional(results.ai_explanation) \o
  <<"\n\nPlease investigate this matter.\n\nThank you.">>

\* the tokens encodeURIComponent leaves as they are: letters, digits, words
Unreserved ==
  (Chars \ {" "}) \cup Tabs \cup {ToString(n) : n \in 0..ScoreScale}

\* encodeURIComponent, token by token: an unreserved token is copied, any other
\* one (a space, a fragment with spaces, quotes, colons or newlines) is escaped
EncodeToken(t) == IF t \in Unreserved THEN <<"lit", t>> ELSE <<"pct", t>>

encodeURIComponent(str) == [i \in 1..Len(str) |-> EncodeToken(str[i])]

\* handleReport: window.open of the mailto link with subject and body encoded
handleReport ==
  opened' = [to |-> "complaints@sebi.gov.in",
             subject |-> encodeURIComponent(Subject),
             body |-> encodeURIComponent(Body)]

\* a mutant of the result panel: the ResultsCard and its button are rendered
\* whenever loading is false
ClickReportNotLoading(rec) ==
  /\ ~loading
  /\ handleReport
  /\ LogEvent(rec, "report")
  /\ UNCHANGED <<activeTab, loading, results, inputValue, inflight, fresh, prev, card>>

\* the 'Report to SEBI' button of ResultsCard, rendered only in the results view
ClickReport(rec) ==
  /\ View = "results"
  /\ handleReport
  /\ LogEvent(rec, "report")
  /\ UNCHANGED <<activeTab, loading, results, inputValue, inflight, fresh, prev, card>>

\* ------------------------------------------------------------ ResultsCard
Levels == {"Low", "Medium", "High"}

\* the scores of the VerificationResult interface: 0 up to the scale
Scores == 0..ScoreScale

getRiskColor(level) ==
  IF level = "High" THEN "text-red-600 bg-red-50 border-red-200"
  ELSE IF level = "Medium" THEN "text-yellow-600 bg-yellow-50 border-yellow-200"
  ELSE IF level = "Low" THEN "text-green-600 bg-green-50 border-green-200"
  ELSE "text-gray-600 bg-gray-50 border-gray-200"

getRiskIcon(level) ==
  IF level = "High" THEN "AlertTriangle"
  ELSE IF level = "Medium" THEN "AlertTriangle"
  ELSE IF level = "Low" THEN "CheckCircle"
  ELSE "Info"

\* a mutant of getScoreColor: the first threshold is inclusive
getScoreColorInclusive(score) ==
  IF score <= 40 THEN "text-red-600"
  ELSE IF score < 70 THEN "text-yellow-600"
  ELSE "text-green-600"

getScoreColor(score) ==
  IF score < 40 THEN "text-red-600"
  ELSE IF score < 70 THEN "text-yellow-600"
  ELSE "text-green-600"

\* the progress bar's style: width and backgroundColor
BarWidth(score) == <<ToString(score), "%">>

BarColor(score) ==
  IF score < 40 THEN "#DC2626"
  ELSE IF score < 70 THEN "#D97706"
  ELSE "#16A34A"

\* what ResultsCard renders from its results prop
ResultsCard(r) ==
  [riskColor |-> getRiskColor(r.risk_level),
   riskIcon |-> getRiskIcon(r.risk_level),
   level |-> r.risk_level,
   score |-> r.risk_score,
   scoreColor |-> getScoreColor(r.risk_score),
   barWidth |-> BarWidth(r.risk_score),
   barColor |-> BarColor(r.risk_score),
   reasons |-> r.reasons,
   explanation |-> r.ai_explanation]

\* ResultsCard given any result of the interface as its prop
InitCard ==
  /\ activeTab = "advisor"
  /\ loading = FALSE
  /\ results \in {[MockResult("advisor", <<"a">>, 0, 0, 0, 0)
                     EXCEPT !.risk_score = s, !.risk_level = l] :
                   s \in Scores, l \in Levels}
  /\ inputValue = <<"a">>
  /\ inflight = <<>>
  /\ opened = Null
  /\ lastEvent = "init"
  /\ fresh = TRUE
  /\ prev = Null
  /\ card = Null

RenderResultsCard ==
  /\ View = "results"
  /\ card = Null
  /\ card' = ResultsCard(results)
  /\ UNCHANGED <<activeTab, loading, results, inputValue, inflight, opened, lastEvent,
                 fresh, prev>>

NextCard == RenderResultsCard

SpecCard == InitCard /\ [][NextCard]_vars

\* ---------------------------------------------------------- specifications
\* the program
Next ==
  \/ ClickVerify(FALSE)
  \/ SelectTab(FALSE)
  \/ EditText(FALSE)
  \/ ResolveCall(FALSE)
  \/ RejectCall(FALSE)
  \/ ClickReport(FALSE)

Spec == Init /\ [][Next]_vars

\* the calls of the collaborator settle: the timer of the mocked call fires
Settle == ResolveCall(FALSE) \/ RejectCall(FALSE)

FairSpec == Spec /\ WF_vars(Settle)

\* the program with each step's event recorded in lastEvent
NextEvents ==
  \/ ClickVerify(TRUE)
  \/ SelectTab(TRUE)
  \/ EditText(TRUE)
  \/ ResolveCall(TRUE)
  \/ RejectCall(TRUE)
  \/ ClickReport(TRUE)

SpecEvents == Init /\ [][NextEvents]_vars

\* the program with the events and the discarded results (prev) recorded
NextHistory ==
  \/ ClickVerifyRecorded
  \/ SelectTab(TRUE)
  \/ EditText(TRUE)
  \/ ResolveCall(TRUE)
  \/ RejectCall(TRUE)
  \/ ClickReport(TRUE)

SpecHistory == Init /\ [][NextHistory]_vars

\* ----------------------------------------------------------------- claims
\* the text is empty or whitespace-only, stated without trim
IsBlank(s) == \A i \in 1..Len(s) : IsSpace(s[i])

Orchestrator == <<activeTab, inputValue, loading, results, inflight>>

\* C1: through the UI, the number of outstanding verification calls is never
\* greater than 1.
C1_AtMostOneInFlight == Len(inflight) <= 1

\* a call is outstanding and since it was submitted the user has selected
\* another tab and typed another submittable text
C1_Witness ==
  /\ Len(inflight) = 1
  /\ ~IsBlank(inputValue)
  /\ inputValue # Head(inflight).text
  /\ activeTab # Head(inflight).tab

\* C2: while loading is true, a click on the verify button invokes no second
\* call and leaves the orchestrator state unchanged.
C2_ResubmitWhilePendingIsNoOp ==
  [][(loading /\ lastEvent' = "click") => UNCHANGED Orchestrator]_vars

\* a click made while pending, after the tab was changed, with a submittable text
C2_Witness ==
  /\ loading
  /\ lastEvent = "click"
  /\ Len(inflight) = 1
  /\ Head(inflight).tab # activeTab
  /\ ~IsBlank(inputValue)

\* C3: with an empty or whitespace-only text, submit changes neither category,
\* text, loading nor result and invokes no call.
C3_BlankSubmitIsNoOp ==
  [][(IsBlank(inputValue) /\ lastEvent' = "click") => UNCHANGED Orchestrator]_vars

\* a click on a whitespace-only text while nothing is pending
C3_Witness ==
  /\ lastEvent = "click"
  /\ inputValue # <<>>
  /\ IsBlank(inputValue)
  /\ ~loading
  /\ inflight = <<>>

\* C4: with a text that is non-empty after trimming, submit from a non-Pending
\* state sets loading to true and the result to absent in the same step, with
\* the call for the current category and text outstanding.
C4_SubmitEntersPending ==
  [][(~IsBlank(inputValue) /\ ~loading /\ lastEvent' = "click") =>
       /\ loading'
       /\ results' = Null
       /\ Len(inflight') = Len(inflight) + 1
       /\ inflight'[Len(inflight')].tab = activeTab
       /\ inflight'[Len(inflight')].text = inputValue]_vars

\* a submission has just been accepted and it discarded a displayed result
C4_Witness ==
  /\ lastEvent = "click"
  /\ loading
  /\ results = Null
  /\ prev # Null
  /\ Len(inflight) = 1
  /\ Head(inflight).text = inputValue

\* C5: whenever loading is true the result is absent, so the spinner is never
\* shown while a result is held.
C5_PendingHasNoResult == loading => results = Null

\* pending with no result, the text emptied since the submission
C5_Witness ==
  /\ loading
  /\ results = Null
  /\ inflight # <<>>
  /\ inputValue = <<>>

\* C6: after a failed verification call loading is false and the result is
\* absent: the view is the 'Ready to Analyze' block.
C6_FailureShowsReady ==
  lastEvent = "reject" => (~loading /\ results = Null /\ View = "ready")

\* a call has just failed, after an earlier request had displayed a result
C6_Witness ==
  /\ lastEvent = "reject"
  /\ prev # Null
  /\ View = "ready"

\* C7: whenever loading becomes true it eventually becomes false again, loading
\* is never true with no call outstanding, and once loading is false the
\* verify button accepts any text that is non-empty after trimming.
C7_EverySubmissionSettles ==
  /\ loading ~> ~loading
  /\ [](loading => inflight # <<>>)
  /\ []((~loading /\ ~IsBlank(inputValue)) => ~VerifyDisabled)

\* a submission has settled with a result and the button accepts the text again
C7_Witness ==
  /\ ~loading
  /\ results # Null
  /\ inflight = <<>>
  /\ ~IsBlank(inputValue)
  /\ ~VerifyDisabled

\* C8: the result changes to a present value only in the step of a successful
\* resolution, which stores a result the call made with the captured category
\* and text returns and sets loading to false.
C8_ResultOnlyFromResolution ==
  [][(results' # results /\ results' # Null) =>
       /\ lastEvent' = "resolve"
       /\ inflight # <<>>
       /\ results' \in MockResults(Head(inflight).tab, Head(inflight).text)
       /\ ~loading']_vars

\* a result has just been stored for a category that is no longer the active one
C8_Witness ==
  /\ lastEvent = "resolve"
  /\ results # Null
  /\ ~loading
  /\ results.reasons[1] # FirstReason(activeTab)

\* C9: a displayed result is the result of the most recently accepted
\* submission, and no outstanding call has been superseded by a later one.
C9_NoStaleResult ==
  /\ results # Null => fresh
  /\ \A i \in 1..Len(inflight) : ~inflight[i].superseded

\* a second result is displayed after an earlier one was discarded
C9_Witness ==
  /\ lastEvent = "resolve"
  /\ results # Null
  /\ prev # Null
  /\ fresh

LevelRank(level) ==
  IF level = "Low" THEN 1 ELSE IF level = "Medium" THEN 2 ELSE 3

\* C10: across the results the orchestrator stores, equal scores have equal
\* levels and a higher score never has a lower level.
C10_LevelMonotonicInScore ==
  (results # Null /\ prev # Null) =>
    /\ results.risk_score = prev.risk_score => results.risk_level = prev.risk_level
    /\ results.risk_score > prev.risk_score =>
         LevelRank(results.risk_level) >= LevelRank(prev.risk_level)
    /\ results.risk_score < prev.risk_score =>
         LevelRank(results.risk_level) <= LevelRank(prev.risk_level)

\* C11: a tab selection changes only activeTab and a text edit changes only
\* inputValue: loading, the stored result and the outstanding calls are
\* unchanged, so a call pending at the time stays outstanding.
C11_InputsOnlyChangeThemselves ==
  [][/\ lastEvent' = "tab" => UNCHANGED <<inputValue, loading, results, inflight>>
     /\ lastEvent' = "edit" => UNCHANGED <<activeTab, loading, results, inflight>>]_vars

\* the category was changed while a call is pending, and the call is still
\* outstanding with the category it was submitted with
C11_Witness ==
  /\ lastEvent = "tab"
  /\ loading
  /\ Len(inflight) = 1
  /\ Head(inflight).tab # activeTab

\* ------------------------------------------------------- the opened draft
\* decodeURIComponent, token by token: what the mail client shows
DecodeToken(e) == e[2]

decodeURIComponent(enc) == [i \in 1..Len(enc) |-> DecodeToken(enc[i])]

DraftBody == decodeURIComponent(opened.body)

\* the first position of token tok in str
IndexOf(str, tok) ==
  CHOOSE i \in 1..Len(str) : str[i] = tok /\ \A j \in 1..(i - 1) : str[j] # tok

\* the draft's 'Type:' and 'Content:' fields
DraftType == DraftBody[2]

DraftContent == SubSeq(DraftBody, 4, IndexOf(DraftBody, "\nRisk Score: ") - 1)

\* the category and the text a stored result was computed from, read back
\* from its first reason and from the quotation in its explanation
ResultTab(r) == CHOOSE t \in Tabs : FirstReason(t) = r.reasons[1]

ResultText(r) == SubSeq(r.ai_explanation, 2, Len(r.ai_explanation) - 3)

\* C12: the draft's Type and Content are the category and the text of the
\* request that produced the displayed result, whatever was selected or typed
\* since it was submitted.
C12_DraftEmbedsSubmittedRequest ==
  opened # Null =>
    /\ DraftType = ResultTab(results)
    /\ DraftContent = ResultText(results)

\* sub occurs in str as a run of consecutive tokens
Contains(str, sub) ==
  \E i \in 0..(Len(str) - Len(sub)) : SubSeq(str, i + 1, i + Len(sub)) = sub

\* the reasons occur in str in their order with the token sep between them
ReasonsJoinedBy(str, reasons, sep) ==
  \E p \in 1..Len(str) :
    \A k \in 1..Len(reasons) :
      /\ p + 2 * (k - 1) <= Len(str)
      /\ str[p + 2 * (k - 1)] = reasons[k]
      /\ k < Len(reasons) => str[p + 2 * k - 1] = sep

\* the opened draft carries, for the state it was composed in, the category
\* and the text in its Type and Content fields, the score, the explanation,
\* and the reasons joined by sep
DraftEmbeds(sep) ==
  opened # Null =>
    /\ DraftType = activeTab
    /\ DraftContent = inputValue
    /\ Contains(DraftBody, <<"\nRisk Score: ", ToString(results.risk_score)>>)
    /\ Contains(DraftBody, results.ai_explanation)
    /\ ReasonsJoinedBy(DraftBody, results.reasons, sep)

\* C13 as stated: the body contains the category, the input text, the score,
\* the explanation and all reasons in order joined by newlines.
C13_DraftReasonsNewlineJoined == DraftEmbeds("\n")

\* C13 as amended: the same, with the reasons joined by a comma and a space.
C13_DraftReasonsCommaJoined == DraftEmbeds(", ")

\* a draft was opened for a result with two reasons, after the text was edited
C13_Witness ==
  /\ opened # Null
  /\ lastEvent = "report"
  /\ Len(results.reasons) = 2
  /\ inputValue # ResultText(results)

Red == {"text-red-600", "#DC2626"}

Amber == {"text-yellow-600", "#D97706"}

Green == {"text-green-600", "#16A34A"}

\* the colours of the card are in band, and the bar is as wide as the score
CardInBand(band) ==
  /\ card.scoreColor \in band
  /\ card.barColor \in band
  /\ card.barWidth = <<ToString(results.risk_score), "%">>

\* C14: for every score in 0..100 the score's colour and the bar's colour are
\* both red below 40, both amber from 40 to 69, both green from 70, and the
\* bar's width is the score in percent.
C14_ScoreBands ==
  card # Null =>
    /\ results.risk_score < 40 => CardInBand(Red)
    /\ (40 <= results.risk_score /\ results.risk_score < 70) => CardInBand(Amber)
    /\ results.risk_score >= 70 => CardInBand(Green)

\* the card rendered for the score 40, the first amber one
C14_Witness ==
  /\ card # Null
  /\ results.risk_score = 40
  /\ card.scoreColor = "text-yellow-600"
  /\ card.barColor = "#D97706"
  /\ card.barWidth = <<"40", "%">>

\* C15: the result a resolution stores is computed from the category and the
\* text captured when the submission was accepted: its first reason is the
\* captured category's and its explanation quotes the captured text, whatever
\* is selected and typed when the call resolves.
C15_ResultFromSubmittedRequest ==
  [][(lastEvent' = "resolve" /\ inflight # <<>> /\ inflight' = Tail(inflight)) =>
       /\ results'.reasons[1] = FirstReason(Head(inflight).tab)
       /\ ResultText(results') = Head(inflight).text
       /\ results'.ai_explanation[1] = "Based on our analysis of \""]_vars

\* a result has just been stored while another category is selected and
\* another text is typed than the ones it was computed from
C15_Witness ==
  /\ lastEvent = "resolve"
  /\ results # Null
  /\ ResultTab(results) # activeTab
  /\ ResultText(results) # inputValue

\* C16: a draft is opened only in a state where loading is false and a result
\* is present, it never carries the text of an absent result, and the report
\* button cannot be clicked in any other view.
C16_ReportOnlyWithResult ==
  /\ opened # Null =>
       /\ ~loading
       /\ results # Null
       /\ ~Contains(DraftBody, <<"undefined">>)
  /\ View # "results" => ~ENABLED ClickReport(TRUE)

\* a draft has just been opened from the results view
C16_Witness ==
  /\ opened # Null
  /\ lastEvent = "report"
  /\ View = "results"
  /\ Contains(DraftBody, <<"\nRisk Score: ", ToString(results.risk_score)>>)

====
